---- MODULE Spec2Model ----
(***************************************************************************)
(* Model of the file-activity monitor (src/monitoring/file_monitor.py),    *)
(* its alert helpers (src/utils.py) and the dashboard's bounded logs       *)
(* (src/gui/dashboard.py).                                                 *)
(*                                                                         *)
(* Strings that the code inspects character by character (paths, file      *)
(* lines, keywords) are sequences of one-character strings.                *)
(***************************************************************************)
EXTENDS Integers, Sequences, FiniteSets, TLC

\* ------------------------------------------------------------------------
\* Text helpers: str.lower(), the "in" substring test, str.strip()
\* ------------------------------------------------------------------------
UpperChars == <<"A","B","C","D","E","F","G","H","I","J","K","L","M",
                "N","O","P","Q","R","S","T","U","V","W","X","Y","Z">>

LowerChars == <<"a","b","c","d","e","f","g","h","i","j","k","l","m",
                "n","o","p","q","r","s","t","u","v","w","x","y","z">>

LowerChar(c) ==
    IF \E i \in 1..Len(UpperChars) : UpperChars[i] = c
    THEN LowerChars[CHOOSE i \in 1..Len(UpperChars) : UpperChars[i] = c]
    ELSE c

Lower(s) == [i \in 1..Len(s) |-> LowerChar(s[i])]

Contains(s, sub) ==
    \E i \in 0..(Len(s) - Len(sub)) : SubSeq(s, i + 1, i + Len(sub)) = sub

\* index of the last occurrence of c in s, 0 when there is none
RFind(s, c) ==
    IF \E i \in 1..Len(s) : s[i] = c
    THEN CHOOSE i \in 1..Len(s) : s[i] = c /\ \A j \in (i + 1)..Len(s) : s[j] # c
    ELSE 0

Strip(s) ==
    IF \A i \in 1..Len(s) : s[i] = " " THEN <<>>
    ELSE LET a == CHOOSE i \in 1..Len(s) : s[i] # " " /\ \A j \in 1..(i - 1) : s[j] = " "
             b == CHOOSE i \in 1..Len(s) : s[i] # " " /\ \A j \in (i + 1)..Len(s) : s[j] = " "
         IN  SubSeq(s, a, b)

\* os.path.splitext(p)[1]: the text from the last dot of the last path
\* component, empty when that component has no dot or only leading dots
SplitExt(p) ==
    LET sepIndex == RFind(p, "/")
        dotIndex == RFind(p, ".")
    IN  IF dotIndex > sepIndex
           /\ \E k \in (sepIndex + 1)..(dotIndex - 1) : p[k] # "."
        THEN SubSeq(p, dotIndex, Len(p))
        ELSE <<>>

\* ------------------------------------------------------------------------
\* FileMonitor._is_text_file
\* ------------------------------------------------------------------------
text_extensions ==
    { <<".","t","x","t">>, <<".","p","y">>, <<".","j","s">>,
      <<".","h","t","m","l">>, <<".","c","s","v">>, <<".","j","s","o","n">>,
      <<".","x","m","l">>, <<".","m","d">>, <<".","l","o","g">>,
      <<".","i","n","i">>, <<".","c","f","g">>, <<".","c","o","n","f">> }

IsTextFileNoLower(file_path) == SplitExt(file_path) \in text_extensions

IsTextFile(file_path) == Lower(SplitExt(file_path)) \in text_extensions

\* the test of line 233: '.eml' or 'email' in the lower-cased path
IsEmailPath(file_path) ==
    \/ Contains(Lower(file_path), <<".","e","m","l">>)
    \/ Contains(Lower(file_path), <<"e","m","a","i","l">>)

\* ------------------------------------------------------------------------
\* Keyword matcher: the compiled alternation and finditer over one line
\* ------------------------------------------------------------------------
VARIABLES
    sensitive_keywords   \* FileMonitor.sensitive_keywords, as keywords_pattern holds them

\* lines 38-41: the default keywords
default_keywords ==
    << <<"p","a","s","s","w","o","r","d">>,
       <<"c","o","n","f","i","d","e","n","t","i","a","l">>,
       <<"s","e","c","r","e","t">>,
       <<"p","r","i","v","a","t","e">>,
       <<"b","a","n","k">>,
       <<"c","r","e","d","i","t"," ","c","a","r","d">>,
       <<"s","s","n">>,
       <<"s","o","c","i","a","l"," ","s","e","c","u","r","i","t","y">>,
       <<"a","c","c","o","u","n","t">>,
       <<"c","l","a","s","s","i","f","i","e","d">>,
       <<"r","e","s","t","r","i","c","t","e","d">> >>

\* does keyword number k match (ignoring case) at position i of line
MatchesAt(line, i, k) ==
    LET kw == sensitive_keywords[k]
    IN  /\ i + Len(kw) - 1 <= Len(line)
        /\ Lower(SubSeq(line, i, i + Len(kw) - 1)) = Lower(kw)

\* the alternation tries the keywords in list order: the first that matches
FirstAlt(line, i) ==
    IF \E k \in 1..Len(sensitive_keywords) : MatchesAt(line, i, k)
    THEN CHOOSE k \in 1..Len(sensitive_keywords) :
            /\ MatchesAt(line, i, k)
            /\ \A j \in 1..(k - 1) : ~MatchesAt(line, i, j)
    ELSE 0

RECURSIVE FindIter(_, _, _)
\* keywords_pattern.finditer(line): leftmost, non-overlapping matches
FindIter(line, line_num, i) ==
    IF i > Len(line) THEN <<>>
    ELSE LET k == FirstAlt(line, i)
         IN  IF k = 0 THEN FindIter(line, line_num, i + 1)
             ELSE LET n == Len(sensitive_keywords[k])
                  IN  << [keyword |-> SubSeq(line, i, i + n - 1),
                          line    |-> line_num,
                          context |-> Strip(line)] >>
                      \o FindIter(line, line_num, i + n)

RECURSIVE ScanLines(_, _)
\* the loop of lines 146-153 over the lines of the file
ScanLines(content, line_num) ==
    IF line_num > Len(content) THEN <<>>
    ELSE FindIter(content[line_num], line_num, 1) \o ScanLines(content, line_num + 1)

\* ------------------------------------------------------------------------
\* Inputs of the model
\* ------------------------------------------------------------------------
\* the paths of the model; the state holds a path by name, the code's string
\* operations work on its characters
Paths == {"notes.txt", "mail.eml", "Email.TXT", "r.pdf"}

PathChars(p) ==
    CASE p = "notes.txt" -> <<"n","o","t","e","s",".","t","x","t">>
      [] p = "mail.eml"  -> <<"m","a","i","l",".","e","m","l">>
      [] p = "Email.TXT" -> <<"E","m","a","i","l",".","T","X","T">>
      [] p = "r.pdf"     -> <<"r",".","p","d","f">>

\* the file contents of the model, by name, and their lines
Contents == {"clean", "sensitive"}

ContentLines(c) ==
    CASE c = "clean"     -> << <<"o","k">> >>
      [] c = "sensitive" -> << <<"o","k">>, <<" ","M","y"," ","S","s","n"," ","b","a","n","k">> >>

\* what the file system holds at the path of the event being handled: no
\* file, a file that cannot be opened, or a readable file with a content
FileStates == {"missing", "unreadable"} \cup Contents

\* the configured roots (paths_to_monitor), in list order; "gone" is a
\* directory that does not exist, "data" one that may exist
Roots == <<"gone", "data">>

MayExist == {"data"}

\* slots for Removable-Media Signal threads
MaxUsbThreads == 2

\* f"USB{random.randint(1, 10)}": the two ends of the range
UsbNames == {"USB1", "USB10"}

EventKinds == {"created", "modified", "moved", "deleted"}

\* watchdog events: moved events carry a destination path
Events ==
    {[kind |-> k, src_path |-> p, dest_path |-> p, is_directory |-> d] :
        k \in EventKinds \ {"moved"}, p \in Paths, d \in BOOLEAN}
    \cup
    {[kind |-> "moved", src_path |-> p, dest_path |-> q, is_directory |-> d] :
        p \in Paths, q \in Paths, d \in BOOLEAN}

\* ------------------------------------------------------------------------
\* State
\* ------------------------------------------------------------------------
VARIABLES
    is_running,      \* FileMonitor.is_running
    usb_detected,    \* FileMonitor.usb_detected
    watches,         \* roots scheduled on the observer
    stop_requested,  \* the observer's stop event (observer.stop())
    pc,              \* position of the observer thread / of handle_file_access
    calls,           \* handle_file_access calls the current callback still makes
    ev,              \* arguments of the current handle_file_access call
    file,            \* the file at ev.file_path, as the file system holds it now
    has_sensitive,   \* local: result of the last check_file_for_sensitive_data
    callLog,         \* what the current call has logged (activity entry, alerts)
    result,          \* return value of the current call
    usb_pc,          \* position of each _simulate_usb_detection thread
    usbLog,          \* alerts logged by the signal thread in its current loop pass
    m_pc,            \* position of the thread calling start/stop_monitoring
    lastOp,          \* outcome of the last start/stop_monitoring call
    usbSeen,         \* values usb_detected has had during the current call
    fileStable,      \* the file did not change during the current call
    found,           \* start_monitoring: the roots os.path.exists found (lines 78-83)
    cur_event,       \* the event whose callback the observer is running
    log_queue,       \* dashboard: st.session_state.log_queue
    file_logs,       \* dashboard: st.session_state.file_logs
    alerts,          \* dashboard: st.session_state.alerts
    written,         \* dashboard: logs the capture worker has created, per type
    scan_content,    \* direct call of check_file_for_sensitive_data: the file's lines
    scan_ret,        \* its return value, once it has returned
    text_path,       \* direct call of _is_text_file: its file_path argument
    text_ret,        \* its return value, once it has returned
    pm_model,        \* PersonaModel.model, per PersonaModel object
    pm_type,         \* PersonaModel.model_type, per object
    pm_scaler,       \* PersonaModel.scaler, per object
    disk,            \* the model file and the scaler file
    pm_ret,          \* outcome of the last PersonaModel call
    trip             \* progress of a save by object 1 and load into a new object 2

monitorVars ==
    <<is_running, usb_detected, watches, stop_requested, pc, calls, ev, file,
      has_sensitive, callLog, result, usb_pc, usbLog,
      m_pc, lastOp, usbSeen, fileStable, found, cur_event>>

dashVars == <<log_queue, file_logs, alerts, written>>

directVars == <<sensitive_keywords, scan_content, scan_ret, text_path, text_ret>>

personaVars == <<pm_model, pm_type, pm_scaler, disk, pm_ret, trip>>

vars == <<monitorVars, dashVars, directVars, personaVars>>

NoEvent == [kind |-> "none", src_path |-> "none", dest_path |-> "none", is_directory |-> FALSE]

NoCall == [file_path |-> "none", access_type |-> "none"]

NoResult == [action |-> "none", reason |-> "none", alert_level |-> "none"]

Raised == [action |-> "raise", reason |-> "exception", alert_level |-> "none"]

InCallPcs == {"scan1", "open1", "alert1", "block1", "email", "scan2", "open2"}

\* the monitor and the dashboard after construction
InitSystem ==
    /\ is_running = FALSE
    /\ usb_detected = FALSE
    /\ watches = {}
    /\ stop_requested = FALSE
    /\ pc = "new"
    /\ calls = <<>>
    /\ ev = NoCall
    /\ file = "missing"
    /\ has_sensitive = FALSE
    /\ callLog = <<>>
    /\ result = NoResult
    /\ usb_pc = [t \in 1..MaxUsbThreads |-> "none"]
    /\ usbLog = <<>>
    /\ m_pc = "idle"
    /\ lastOp = "none"
    /\ usbSeen = {}
    /\ fileStable = TRUE
    /\ found = {}
    /\ cur_event = NoEvent
    /\ log_queue = <<>>
    /\ file_logs = <<>>
    /\ alerts = <<>>
    /\ written = [file_access |-> 0, alert |-> 0]

NotCalled == [done |-> FALSE, value |-> FALSE, matches |-> <<>>]

\* the PersonaModel objects: PersonaModel's methods are run on two objects
Objs == {1, 2}

NoModel == [kind |-> "none", of |-> "none"]

\* StandardScaler() of line 39, not fitted
NewScaler == [kind |-> "scaler", of |-> "unfitted"]

NoFile == [kind |-> "missing", of |-> "none"]

NoRet == [op |-> "none", outcome |-> "none", value |-> <<>>]

NoTrip == [phase |-> "none", scaler_path |-> "none"]

\* lines 28-45 with the default model type, no file written yet
InitPersonaIdle ==
    /\ pm_model = [o \in Objs |-> NoModel]
    /\ pm_type = [o \in Objs |-> "RandomForest"]
    /\ pm_scaler = [o \in Objs |-> NewScaler]
    /\ disk = [model_path |-> NoFile, scaler_path |-> NoFile]
    /\ pm_ret = NoRet
    /\ trip = NoTrip

\* FileMonitor() as main.py and the dashboard construct it: default keywords
Init ==
    /\ InitSystem
    /\ InitPersonaIdle
    /\ sensitive_keywords = default_keywords
    /\ scan_content = <<>>
    /\ scan_ret = NotCalled
    /\ text_path = <<>>
    /\ text_ret = NotCalled

\* ------------------------------------------------------------------------
\* utils.log_activity / utils.log_alert: the records they write
\* ------------------------------------------------------------------------
ActivityEntryAsAlert(activity_type, details) ==
    [type |-> "alert", level |-> "low", text |-> activity_type, path |-> details]

\* utils.log_activity, lines 39-41
ActivityEntry(activity_type, details) ==
    [type |-> "activity", level |-> "info", text |-> activity_type, path |-> details]

AlertEntry(alert_level, text, path) ==
    [type |-> "alert", level |-> alert_level, text |-> text, path |-> path]

AlertsOf(log) == SelectSeq(log, LAMBDA e : e.type = "alert")

\* ------------------------------------------------------------------------
\* FileMonitor.start_monitoring / stop_monitoring (called from one thread)
\* ------------------------------------------------------------------------
ScheduledBeforeNoExistsCheck(existing, k) == {Roots[i] : i \in 1..(k - 1)}

\* roots that the loop of lines 78-83 schedules before reaching index k
ScheduledBefore(existing, k) == {Roots[i] : i \in {j \in 1..(k - 1) : Roots[j] \in existing}}

FirstFreeSlot == CHOOSE t \in 1..MaxUsbThreads :
                    /\ usb_pc[t] = "none"
                    /\ \A u \in 1..(t - 1) : usb_pc[u] # "none"

\* lines 71-72: warn and return
StartNoop ==
    /\ lastOp' = "start_noop"
    /\ UNCHANGED <<is_running, usb_detected, watches, stop_requested, pc, calls,
                   ev, file, has_sensitive, callLog, result, usb_pc, usbLog,
                   m_pc, usbSeen, fileStable,
                   found, cur_event>>

StartRaisesRunning ==
    /\ lastOp' = "start_raised"
    /\ found' = {}
    /\ is_running' = TRUE
    /\ UNCHANGED <<usb_pc, pc, m_pc>>

\* lines 96-98: the exception is logged and raised again; lines 86-92 have
\* not run
StartRaises ==
    /\ lastOp' = "start_raised"
    /\ found' = {}
    /\ UNCHANGED <<is_running, usb_pc, pc, m_pc>>

\* lines 76-86 and 96-98: schedule every existing root, start the observer.
\* existing: the roots os.path.exists finds; fail_at: the root whose
\* schedule() raises (0: none); start_fails: observer.start() raises.
\* An observer thread that was started before cannot be started again.
StartSchedule ==
    /\ \E existing \in SUBSET MayExist, fail_at \in 0..Len(Roots), start_fails \in BOOLEAN :
          /\ fail_at # 0 => Roots[fail_at] \in existing
          /\ IF fail_at # 0
             THEN /\ watches' = watches \cup ScheduledBefore(existing, fail_at)
                  /\ StartRaises
             ELSE /\ watches' = watches \cup ScheduledBefore(existing, Len(Roots) + 1)
                  /\ IF start_fails \/ pc # "new"
                     THEN StartRaises
                     ELSE /\ pc' = "check"
                          /\ m_pc' = "starting"
                          /\ lastOp' = "none"
                          /\ found' = existing
                          /\ UNCHANGED <<is_running, usb_pc>>
    /\ UNCHANGED <<usb_detected, stop_requested, calls, ev, file,
                   has_sensitive, callLog, result, usbLog, usbSeen,
                   fileStable, cur_event>>

\* lines 87-94: set the flag, start the signal thread
StartFinish ==
    /\ UNCHANGED <<dashVars, directVars, personaVars>>
    /\ m_pc = "starting"
    /\ \E t \in 1..MaxUsbThreads : usb_pc[t] = "none"
    /\ is_running' = TRUE
    /\ usb_pc' = [usb_pc EXCEPT ![FirstFreeSlot] = "while"]
    /\ m_pc' = "idle"
    /\ lastOp' = "start_ok"
    /\ found' = {}
    /\ UNCHANGED <<usb_detected, watches, stop_requested, pc, calls, ev, file,
                   has_sensitive, callLog, result, usbLog, usbSeen, fileStable,
                   cur_event>>

StartMonitoringUnguarded ==
    /\ UNCHANGED <<dashVars, directVars, personaVars>>
    /\ m_pc = "idle"
    /\ StartSchedule

\* lines 66-86: the call up to observer.start()
StartMonitoring ==
    /\ UNCHANGED <<dashVars, directVars, personaVars>>
    /\ m_pc = "idle"
    /\ IF is_running THEN StartNoop ELSE StartSchedule

\* lines 105-106: warn and return
StopNoop ==
    /\ lastOp' = "stop_noop"
    /\ UNCHANGED <<is_running, usb_detected, watches, stop_requested, pc, calls,
                   ev, file, has_sensitive, callLog, result, usb_pc, usbLog,
                   m_pc, usbSeen, fileStable,
                   found, cur_event>>

\* line 111: observer.stop() sets the observer's stop event
StopRequest ==
    /\ stop_requested' = TRUE
    /\ m_pc' = "joining"
    /\ lastOp' = "none"
    /\ UNCHANGED <<is_running, usb_detected, watches, pc, calls, ev, file,
                   has_sensitive, callLog, result, usb_pc, usbLog, usbSeen,
                   fileStable,
                   found, cur_event>>

StopMonitoringUnguarded ==
    /\ UNCHANGED <<dashVars, directVars, personaVars>>
    /\ m_pc = "idle"
    /\ StopRequest

\* lines 100-111: the call up to observer.stop()
StopMonitoring ==
    /\ UNCHANGED <<dashVars, directVars, personaVars>>
    /\ m_pc = "idle"
    /\ IF ~is_running THEN StopNoop ELSE StopRequest

JoinReturnsEarly == TRUE

\* line 112: observer.join() returns once the observer thread has terminated
JoinReturns == pc = "stopped"

StopJoinClearsUsb ==
    /\ UNCHANGED <<dashVars, directVars, personaVars>>
    /\ m_pc = "joining"
    /\ JoinReturns
    /\ is_running' = FALSE
    /\ usb_detected' = FALSE
    /\ m_pc' = "idle"
    /\ lastOp' = "stop_ok"
    /\ UNCHANGED <<watches, stop_requested, pc, calls, ev, file,
                   has_sensitive, callLog, result, usb_pc, usbLog, usbSeen,
                   fileStable, found, cur_event>>

\* lines 112-115: join the observer thread, clear the flag
StopJoin ==
    /\ UNCHANGED <<dashVars, directVars, personaVars>>
    /\ m_pc = "joining"
    /\ JoinReturns
    /\ is_running' = FALSE
    /\ m_pc' = "idle"
    /\ lastOp' = "stop_ok"
    /\ UNCHANGED <<usb_detected, watches, stop_requested, pc, calls, ev, file,
                   has_sensitive, callLog, result, usb_pc, usbLog, usbSeen,
                   fileStable,
                   found, cur_event>>

\* ------------------------------------------------------------------------
\* The observer thread and FileEventHandler
\* ------------------------------------------------------------------------
PropagatesAlways(event) == TRUE

\* lines 270, 275, 280, 286: `if not event.is_directory`
Propagates(event) == ~event.is_directory

CallbackDestFirst(event) ==
    IF ~Propagates(event) THEN <<>>
    ELSE IF event.kind = "moved"
         THEN << [file_path |-> event.dest_path, access_type |-> "moved to"],
                 [file_path |-> event.src_path, access_type |-> "moved from"] >>
         ELSE << [file_path |-> event.src_path, access_type |-> event.kind] >>

\* FileEventHandler.on_created / on_modified / on_moved / on_deleted: the
\* handle_file_access calls the callback makes for an event
Callback(event) ==
    IF ~Propagates(event) THEN <<>>
    ELSE IF event.kind = "moved"
         THEN << [file_path |-> event.src_path, access_type |-> "moved from"],
                 [file_path |-> event.dest_path, access_type |-> "moved to"] >>
         ELSE << [file_path |-> event.src_path, access_type |-> event.kind] >>

\* the dispatch loop tests the stop event before waiting for an event
ObserverLoop ==
    /\ UNCHANGED <<dashVars, directVars, personaVars>>
    /\ pc = "check"
    /\ pc' = IF stop_requested THEN "stopped" ELSE "get"
    /\ UNCHANGED <<is_running, usb_detected, watches, stop_requested, calls, ev,
                   file, has_sensitive, callLog, result, usb_pc,
                   usbLog, m_pc, lastOp, usbSeen, fileStable,
                   found, cur_event>>

\* the loop takes a queued event of a watched root and runs its callback
Dispatch ==
    /\ UNCHANGED <<dashVars, directVars, personaVars>>
    /\ pc = "get"
    /\ watches # {}
    /\ \E e \in Events : cur_event' = e /\ calls' = Callback(e)
    /\ pc' = "call"
    /\ UNCHANGED <<is_running, usb_detected, watches, stop_requested, ev, file,
                   has_sensitive, callLog, result, usb_pc, usbLog, m_pc, lastOp, usbSeen, fileStable,
                   found>>

\* observer.stop() wakes the waiting loop
ObserverWake ==
    /\ UNCHANGED <<dashVars, directVars, personaVars>>
    /\ pc = "get"
    /\ stop_requested
    /\ pc' = "check"
    /\ UNCHANGED <<is_running, usb_detected, watches, stop_requested, calls, ev,
                   file, has_sensitive, callLog, result, usb_pc,
                   usbLog, m_pc, lastOp, usbSeen, fileStable,
                   found, cur_event>>

\* the callback has made all its calls
CallbackDone ==
    /\ UNCHANGED <<dashVars, directVars, personaVars>>
    /\ pc = "call"
    /\ calls = <<>>
    /\ pc' = "check"
    /\ cur_event' = NoEvent
    /\ UNCHANGED <<is_running, usb_detected, watches, stop_requested, calls, ev,
                   file, has_sensitive, callLog, result, usb_pc,
                   usbLog, m_pc, lastOp, usbSeen, fileStable,
                   found>>

\* ------------------------------------------------------------------------
\* FileMonitor.handle_file_access and check_file_for_sensitive_data
\* ------------------------------------------------------------------------
SensitiveMsg == "Sensitive data found in file: "

EmailMsg == "Potential email data leak detected: "

BlockExfiltration ==
    [action |-> "block", reason |-> "Potential data exfiltration detected",
     alert_level |-> "high"]

BlockEmail ==
    [action |-> "block", reason |-> "Potential email data leak detected",
     alert_level |-> "high"]

Allow == [action |-> "allow", reason |-> "No threat detected", alert_level |-> "low"]

ScansContentAlways(access_type) == TRUE

\* line 216
ScansContent(access_type) == access_type \in {"created", "modified"}

\* line 219
AlertLevelAlwaysMedium(usb) == "medium"

AlertLevel(usb) == IF usb THEN "high" ELSE "medium"

\* line 224
BlocksAlways(usb) == TRUE

Blocks(usb) == usb

\* lines 135-141: the checks made before the file is opened
\* "no": return (False, []) at once; "open": go on to open the file
PreCheckSkipsExtension(f, file_path) ==
    IF f = "missing" THEN "no" ELSE "open"

PreCheck(f, file_path) ==
    IF f = "missing" THEN "no"
    ELSE IF ~IsTextFile(PathChars(file_path)) THEN "no"
    ELSE "open"

\* lines 143-165: open, scan every line; an exception of open or of the read
\* is caught and gives (False, [])
ReadAndScanNoCatch(f) ==
    IF f \in Contents
    THEN [raised |-> FALSE, has |-> ScanLines(ContentLines(f), 1) # <<>>]
    ELSE [raised |-> TRUE, has |-> FALSE]

ReadAndScan(f) ==
    IF f \in Contents
    THEN [raised |-> FALSE, has |-> ScanLines(ContentLines(f), 1) # <<>>]
    ELSE [raised |-> FALSE, has |-> FALSE]

\* lines 201-216: the call starts, logs its activity entry and branches on
\* the access type.  The file system holds any state at the path.
HandleBegin ==
    /\ UNCHANGED <<dashVars, directVars, personaVars>>
    /\ pc = "call"
    /\ calls # <<>>
    /\ ev' = Head(calls)
    /\ calls' = Tail(calls)
    /\ \E f \in FileStates : file' = f
    /\ callLog' = <<ActivityEntry(Head(calls).access_type, Head(calls).file_path)>>
    /\ result' = NoResult
    /\ has_sensitive' = FALSE
    /\ usbSeen' = {usb_detected}
    /\ fileStable' = TRUE
    /\ pc' = IF ScansContent(Head(calls).access_type) THEN "scan1" ELSE "email"
    /\ UNCHANGED <<is_running, usb_detected, watches, stop_requested, usb_pc,
                   usbLog, m_pc, lastOp,
                   found, cur_event>>

\* line 217 / 234, first half of check_file_for_sensitive_data
ScanPreCheck ==
    /\ UNCHANGED <<dashVars, directVars, personaVars>>
    /\ pc \in {"scan1", "scan2"}
    /\ IF PreCheck(file, ev.file_path) = "open"
       THEN /\ pc' = IF pc = "scan1" THEN "open1" ELSE "open2"
            /\ UNCHANGED <<has_sensitive, result>>
       ELSE /\ has_sensitive' = FALSE
            /\ IF pc = "scan1"
               THEN pc' = "email" /\ UNCHANGED result
               ELSE pc' = "ret" /\ result' = Allow
    /\ UNCHANGED <<is_running, usb_detected, watches, stop_requested, calls, ev,
                   file, callLog, usb_pc, usbLog, m_pc, lastOp,
                   usbSeen, fileStable,
                   found, cur_event>>

\* line 217 / 234, second half of check_file_for_sensitive_data, and the
\* branch on its result (line 218)
ScanFirst ==
    /\ UNCHANGED <<dashVars, directVars, personaVars>>
    /\ pc = "open1"
    /\ LET r == ReadAndScan(file)
       IN  IF r.raised
           THEN /\ result' = Raised
                /\ pc' = "ret"
                /\ UNCHANGED has_sensitive
           ELSE /\ has_sensitive' = r.has
                /\ pc' = IF r.has THEN "alert1" ELSE "email"
                /\ UNCHANGED result
    /\ UNCHANGED <<is_running, usb_detected, watches, stop_requested, calls, ev,
                   file, callLog, usb_pc, usbLog, m_pc, lastOp,
                   usbSeen, fileStable,
                   found, cur_event>>

\* lines 219-221: first read of usb_detected, the alert is logged
SensitiveAlert ==
    /\ UNCHANGED <<dashVars, directVars, personaVars>>
    /\ pc = "alert1"
    /\ callLog' = Append(callLog,
                         AlertEntry(AlertLevel(usb_detected), SensitiveMsg, ev.file_path))
    /\ pc' = "block1"
    /\ UNCHANGED <<is_running, usb_detected, watches, stop_requested, calls, ev,
                   file, has_sensitive, result, usb_pc, usbLog, m_pc, lastOp, usbSeen, fileStable,
                   found, cur_event>>

\* lines 224-230: second read of usb_detected
ExfiltrationCheck ==
    /\ UNCHANGED <<dashVars, directVars, personaVars>>
    /\ pc = "block1"
    /\ IF Blocks(usb_detected)
       THEN result' = BlockExfiltration /\ pc' = "ret"
       ELSE pc' = "email" /\ UNCHANGED result
    /\ UNCHANGED <<is_running, usb_detected, watches, stop_requested, calls, ev,
                   file, has_sensitive, callLog, usb_pc, usbLog, m_pc, lastOp, usbSeen, fileStable,
                   found, cur_event>>

\* line 233, and lines 245-249 when the path is not email-like
EmailCheck ==
    /\ UNCHANGED <<dashVars, directVars, personaVars>>
    /\ pc = "email"
    /\ IF IsEmailPath(PathChars(ev.file_path))
       THEN pc' = "scan2" /\ UNCHANGED result
       ELSE pc' = "ret" /\ result' = Allow
    /\ UNCHANGED <<is_running, usb_detected, watches, stop_requested, calls, ev,
                   file, has_sensitive, callLog, usb_pc, usbLog, m_pc, lastOp, usbSeen, fileStable,
                   found, cur_event>>

\* lines 234-249: the second scan, the email alert and the decision
ScanEmail ==
    /\ UNCHANGED <<dashVars, directVars, personaVars>>
    /\ pc = "open2"
    /\ LET r == ReadAndScan(file)
       IN  IF r.raised
           THEN /\ result' = Raised
                /\ UNCHANGED <<has_sensitive, callLog>>
           ELSE /\ has_sensitive' = r.has
                /\ IF r.has
                   THEN /\ callLog' = Append(callLog,
                                             AlertEntry("high", EmailMsg, ev.file_path))
                        /\ result' = BlockEmail
                   ELSE /\ result' = Allow
                        /\ UNCHANGED callLog
    /\ pc' = "ret"
    /\ UNCHANGED <<is_running, usb_detected, watches, stop_requested, calls, ev,
                   file, usb_pc, usbLog, m_pc, lastOp, usbSeen,
                   fileStable,
                   found, cur_event>>

\* the call returns to the callback
HandleReturn ==
    /\ UNCHANGED <<dashVars, directVars, personaVars>>
    /\ pc = "ret"
    /\ pc' = "call"
    /\ ev' = NoCall
    /\ file' = "missing"
    /\ has_sensitive' = FALSE
    /\ callLog' = <<>>
    /\ result' = NoResult
    /\ usbSeen' = {}
    /\ fileStable' = TRUE
    /\ UNCHANGED <<is_running, usb_detected, watches, stop_requested, calls,
                   usb_pc, usbLog, m_pc, lastOp,
                   found, cur_event>>

\* another process changes the file while the call is in progress
FsChange ==
    /\ UNCHANGED <<dashVars, directVars, personaVars>>
    /\ pc \in InCallPcs
    /\ \E f \in FileStates \ {file} : file' = f
    /\ fileStable' = FALSE
    /\ UNCHANGED <<is_running, usb_detected, watches, stop_requested, pc, calls,
                   ev, has_sensitive, callLog, result, usb_pc, usbLog, m_pc, lastOp, usbSeen,
                   found, cur_event>>

\* ------------------------------------------------------------------------
\* FileMonitor._simulate_usb_detection, one thread per slot
\* ------------------------------------------------------------------------
Seen(usb) == IF pc \in InCallPcs THEN usbSeen \cup {usb} ELSE usbSeen

UsbLoopForever(t) ==
    /\ UNCHANGED <<dashVars, directVars, personaVars>>
    /\ usb_pc[t] = "while"
    /\ usb_pc' = [usb_pc EXCEPT ![t] = "sleep30"]
    /\ usbLog' = <<>>
    /\ UNCHANGED <<is_running, usb_detected, watches, stop_requested, pc, calls,
                   ev, file, has_sensitive, callLog, result, m_pc, lastOp,
                   usbSeen, fileStable, found, cur_event>>

\* line 189: the loop test (the alerts of the last window are history now)
UsbLoop(t) ==
    /\ UNCHANGED <<dashVars, directVars, personaVars>>
    /\ usb_pc[t] = "while"
    /\ usb_pc' = [usb_pc EXCEPT ![t] = IF is_running THEN "sleep30" ELSE "dead"]
    /\ usbLog' = <<>>
    /\ UNCHANGED <<is_running, usb_detected, watches, stop_requested, pc, calls,
                   ev, file, has_sensitive, callLog, result, m_pc, lastOp,
                   usbSeen, fileStable,
                   found, cur_event>>

\* lines 191-193: the sleep ends and the draw decides; on a hit the flag is set
UsbPoll(t) ==
    /\ UNCHANGED <<dashVars, directVars, personaVars>>
    /\ usb_pc[t] = "sleep30"
    /\ \/ /\ usb_pc' = [usb_pc EXCEPT ![t] = "while"]
          /\ UNCHANGED <<usb_detected, usbSeen>>
       \/ /\ usb_detected' = TRUE
          /\ usbSeen' = Seen(TRUE)
          /\ usb_pc' = [usb_pc EXCEPT ![t] = "log"]
    /\ UNCHANGED <<is_running, watches, stop_requested, pc, calls, ev, file,
                   has_sensitive, callLog, result, usbLog, m_pc, lastOp,
                   fileStable,
                   found, cur_event>>

UsbAlertHigh(t) ==
    /\ UNCHANGED <<dashVars, directVars, personaVars>>
    /\ usb_pc[t] = "log"
    /\ \E usb_name \in UsbNames :
          usbLog' = Append(usbLog, AlertEntry("high", "USB device detected: ", usb_name))
    /\ usb_pc' = [usb_pc EXCEPT ![t] = "sleep10"]
    /\ UNCHANGED <<is_running, usb_detected, watches, stop_requested, pc, calls,
                   ev, file, has_sensitive, callLog, result, m_pc, lastOp,
                   usbSeen, fileStable, found, cur_event>>

\* lines 194-196: a device name is drawn and the alert logged
UsbAlert(t) ==
    /\ UNCHANGED <<dashVars, directVars, personaVars>>
    /\ usb_pc[t] = "log"
    /\ \E usb_name \in UsbNames :
          usbLog' = Append(usbLog, AlertEntry("medium", "USB device detected: ", usb_name))
    /\ usb_pc' = [usb_pc EXCEPT ![t] = "sleep10"]
    /\ UNCHANGED <<is_running, usb_detected, watches, stop_requested, pc, calls,
                   ev, file, has_sensitive, callLog, result, m_pc, lastOp,
                   usbSeen, fileStable,
                   found, cur_event>>

UsbRemoveIfRunning(t) ==
    /\ UNCHANGED <<dashVars, directVars, personaVars>>
    /\ usb_pc[t] = "sleep10"
    /\ usb_detected' = (usb_detected /\ ~is_running)
    /\ usbSeen' = Seen(usb_detected /\ ~is_running)
    /\ usb_pc' = [usb_pc EXCEPT ![t] = "while"]
    /\ UNCHANGED <<is_running, watches, stop_requested, pc, calls, ev, file,
                   has_sensitive, callLog, result, usbLog, m_pc, lastOp,
                   fileStable, found, cur_event>>

\* lines 197-199: the connected window ends
UsbRemove(t) ==
    /\ UNCHANGED <<dashVars, directVars, personaVars>>
    /\ usb_pc[t] = "sleep10"
    /\ usb_detected' = FALSE
    /\ usbSeen' = Seen(FALSE)
    /\ usb_pc' = [usb_pc EXCEPT ![t] = "while"]
    /\ UNCHANGED <<is_running, watches, stop_requested, pc, calls, ev, file,
                   has_sensitive, callLog, result, usbLog, m_pc, lastOp,
                   fileStable,
                   found, cur_event>>

UsbThread == \E t \in 1..MaxUsbThreads : UsbLoop(t) \/ UsbPoll(t) \/ UsbAlert(t) \/ UsbRemove(t)

\* ------------------------------------------------------------------------
\* Dashboard: log_capture_worker and process_queue (src/gui/dashboard.py)
\* ------------------------------------------------------------------------
Capacity == 100

\* bound on the length of log_queue
MaxQueue == 1

\* bound on the logs of each type the worker creates
MaxPuts == 102

action_types == {"created", "accessed", "modified", "deleted"}

alert_levels == {"low", "medium", "high"}

alert_messages ==
    {"Suspicious file access detected", "Multiple login attempts",
     "Sensitive data accessed", "USB device connected",
     "Large file transfer detected", "Email with sensitive content detected"}

\* a log record; id stands for its timestamp and identity
LogRecord(type, id, a, b) == [type |-> type, id |-> id, a |-> a, b |-> b]

\* lines 75-93: the worker puts a file access log
WorkerFileLog(actions, paths, limit) ==
    /\ Len(log_queue) < MaxQueue
    /\ written.file_access < limit
    /\ \E action \in actions, file_path \in paths :
          log_queue' = Append(log_queue,
                              LogRecord("file_access", written.file_access + 1, action, file_path))
    /\ written' = [written EXCEPT !.file_access = @ + 1]
    /\ UNCHANGED <<monitorVars, directVars, personaVars, file_logs, alerts>>

\* lines 95-114: the worker puts an alert
WorkerAlert(levels, messages, limit) ==
    /\ Len(log_queue) < MaxQueue
    /\ written.alert < limit
    /\ \E level \in levels, message \in messages :
          log_queue' = Append(log_queue,
                              LogRecord("alert", written.alert + 1, level, message))
    /\ written' = [written EXCEPT !.alert = @ + 1]
    /\ UNCHANGED <<monitorVars, directVars, personaVars, file_logs, alerts>>

\* lines 130-131 / 136-137: keep only the most recent 100
KeepOldest(log) == IF Len(log) > Capacity THEN SubSeq(log, 1, Capacity) ELSE log

KeepRecent(log) == IF Len(log) > Capacity THEN Tail(log) ELSE log

\* lines 124-137: one pass of the loop of process_queue
ProcessQueue ==
    /\ log_queue # <<>>
    /\ LET log == Head(log_queue)
       IN  /\ log_queue' = Tail(log_queue)
           /\ IF log.type = "file_access"
              THEN /\ file_logs' = KeepRecent(Append(file_logs, log))
                   /\ UNCHANGED alerts
              ELSE /\ alerts' = KeepRecent(Append(alerts, log))
                   /\ UNCHANGED file_logs
    /\ UNCHANGED <<monitorVars, directVars, personaVars, written>>

NextLog ==
    \/ WorkerFileLog({"created"}, {"/confidential/secret.txt"}, MaxPuts)
    \/ WorkerAlert({"high"}, {"Sensitive data accessed"}, MaxPuts)
    \/ ProcessQueue

\* the dashboard alone, its logs filled past their capacity
SpecLog == Init /\ [][NextLog]_vars

\* ------------------------------------------------------------------------
\* Specifications
\* ------------------------------------------------------------------------
Next ==
    \/ StartMonitoring
    \/ StartFinish
    \/ StopMonitoring
    \/ StopJoin
    \/ ObserverLoop
    \/ Dispatch
    \/ ObserverWake
    \/ CallbackDone
    \/ HandleBegin
    \/ ScanPreCheck
    \/ ScanFirst
    \/ SensitiveAlert
    \/ ExfiltrationCheck
    \/ EmailCheck
    \/ ScanEmail
    \/ HandleReturn
    \/ FsChange
    \/ UsbThread

\* the monitor
Spec == Init /\ [][Next]_vars

\* every started signal thread keeps being scheduled: its sleeps end and
\* its next statement runs
SignalScheduled ==
    \A t \in 1..MaxUsbThreads :
        WF_vars(UsbLoop(t) \/ UsbPoll(t) \/ UsbAlert(t) \/ UsbRemove(t))

\* the monitor with its signal thread scheduled
SpecFair == Init /\ [][Next]_vars /\ SignalScheduled

\* bound on the alerts the worker creates next to a running monitor
MaxSysPuts == 1

NextSys ==
    \/ Next
    \/ WorkerAlert({"high"}, {"Sensitive data accessed"}, MaxSysPuts)
    \/ ProcessQueue

\* the monitor next to the dashboard
SpecSys == Init /\ [][NextSys]_vars

\* ------------------------------------------------------------------------
\* check_file_for_sensitive_data called directly, on a monitor constructed
\* with a keyword list, for a readable text file
\* ------------------------------------------------------------------------
\* bounds of the keyword lists and file contents
MaxKeywordLen == 2

MaxKeywords == 2

MaxLineLen == 3

MaxHeadLen == 1

MaxLines == 2

KeywordAlphabet == {"a", "b"}

TextAlphabet == {"a", "b", "A"}

\* the strings over an alphabet up to a length
Strings(alphabet, n) == UNION {[1..m -> alphabet] : m \in 0..n}

\* keyword lists: distinct non-empty keywords; the empty list is one of them
KeywordLists ==
    {ks \in Strings(Strings(KeywordAlphabet, MaxKeywordLen) \ {<<>>}, MaxKeywords) :
        \A i, j \in 1..Len(ks) : i # j => ks[i] # ks[j]}

\* file contents: up to MaxLines lines, the lines before the last short
ScanContents ==
    {c \in Strings(Strings(TextAlphabet, MaxLineLen), MaxLines) :
        \A n \in 1..(Len(c) - 1) : Len(c[n]) <= MaxHeadLen}

\* line 38: `sensitive_keywords or [...]`, an empty list gives the defaults
ConfiguredKeywords(arg) == IF arg = <<>> THEN default_keywords ELSE arg

InitScan ==
    /\ InitSystem
    /\ InitPersonaIdle
    /\ \E arg \in KeywordLists : sensitive_keywords = ConfiguredKeywords(arg)
    /\ scan_content \in ScanContents
    /\ scan_ret = NotCalled
    /\ text_path = <<>>
    /\ text_ret = NotCalled

\* lines 143-161: the file is read line by line, every match recorded
CheckFile ==
    /\ ~scan_ret.done
    /\ LET matches == ScanLines(scan_content, 1)
       IN  scan_ret' = [done |-> TRUE, value |-> matches # <<>>, matches |-> matches]
    /\ UNCHANGED <<monitorVars, dashVars, personaVars, sensitive_keywords, scan_content,
                   text_path, text_ret>>

NextScan == CheckFile

\* the scan alone
SpecScan == InitScan /\ [][NextScan]_vars

\* ------------------------------------------------------------------------
\* _is_text_file called directly
\* ------------------------------------------------------------------------
\* bound of the length of the paths drawn over PathAlphabet
MaxPathLen == 5

PathAlphabet == {"m", "d", "M", ".", "/"}

\* the paths given to _is_text_file: every short path over the alphabet,
\* the paths of the monitor's events, a file of each listed extension
TextPaths ==
    Strings(PathAlphabet, MaxPathLen)
    \cup {PathChars(p) : p \in Paths}
    \cup {<<"a">> \o e : e \in text_extensions}

InitText ==
    /\ InitSystem
    /\ InitPersonaIdle
    /\ sensitive_keywords = default_keywords
    /\ scan_content = <<>>
    /\ scan_ret = NotCalled
    /\ text_path \in TextPaths
    /\ text_ret = NotCalled

\* lines 181-183
IsTextFileCall ==
    /\ ~text_ret.done
    /\ text_ret' = [done |-> TRUE, value |-> IsTextFile(text_path), matches |-> <<>>]
    /\ UNCHANGED <<monitorVars, dashVars, personaVars, sensitive_keywords, scan_content,
                   scan_ret, text_path>>

NextText == IsTextFileCall

\* _is_text_file alone
SpecText == InitText /\ [][NextText]_vars

\* ------------------------------------------------------------------------
\* PersonaModel (src/model/persona_model.py): train, predict, save_model,
\* load_model on two objects that share the model file and the scaler file.
\* A trained estimator is known by its type, a scaler by whether it has
\* been fitted; the training data and the behaviour record are fixed.
\* ------------------------------------------------------------------------
ModelTypes == {"RandomForest", "LogisticRegression", "SVM"}

KnownTypes == {"RandomForest", "LogisticRegression"}

FittedScaler == [kind |-> "scaler", of |-> "fitted"]

\* whether a scaler_path argument is passed
ScalerArgs == {"given", "omitted"}

InitPersona ==
    /\ InitSystem
    /\ sensitive_keywords = default_keywords
    /\ scan_content = <<>>
    /\ scan_ret = NotCalled
    /\ text_path = <<>>
    /\ text_ret = NotCalled
    /\ pm_model = [o \in Objs |-> NoModel]
    /\ pm_type \in [Objs -> ModelTypes]
    /\ pm_scaler = [o \in Objs |-> NewScaler]
    /\ disk = [model_path |-> NoFile, scaler_path |-> NoFile]
    /\ pm_ret = NoRet
    /\ trip = NoTrip

Ret(op, outcome, value) == [op |-> op, outcome |-> outcome, value |-> value]

\* lines 76-99: the scaler is fitted before the model type is looked at
Train(o) ==
    /\ pm_scaler' = [pm_scaler EXCEPT ![o] = FittedScaler]
    /\ IF pm_type[o] \in KnownTypes
       THEN /\ pm_model' = [pm_model EXCEPT ![o] = [kind |-> "model", of |-> pm_type[o]]]
            /\ pm_ret' = Ret("train", "ok", <<>>)
       ELSE /\ pm_ret' = Ret("train", "ValueError", <<>>)
            /\ UNCHANGED pm_model
    /\ trip' = NoTrip
    /\ UNCHANGED <<monitorVars, dashVars, directVars, pm_type, disk>>

\* lines 131-160: the persona is what this estimator gives for the record
\* scaled by this scaler; a scaler that was never fitted makes transform
\* raise
PredictResult(o) ==
    IF pm_model[o] = NoModel THEN Ret("predict", "RuntimeError", <<>>)
    ELSE IF pm_scaler[o] = NewScaler THEN Ret("predict", "NotFittedError", <<>>)
    ELSE Ret("predict", "ok", <<pm_model[o], pm_scaler[o]>>)

Predict(o) ==
    /\ pm_ret' = PredictResult(o)
    /\ UNCHANGED <<monitorVars, dashVars, directVars, pm_model, pm_type, pm_scaler,
                   disk, trip>>

\* lines 173-187
SaveModel(o, scaler_arg) ==
    /\ IF pm_model[o] = NoModel
       THEN /\ pm_ret' = Ret("save_model", "RuntimeError", <<>>)
            /\ UNCHANGED <<disk, trip>>
       ELSE /\ disk' = [model_path  |-> pm_model[o],
                        scaler_path |-> IF scaler_arg = "given" THEN pm_scaler[o]
                                        ELSE disk.scaler_path]
            /\ pm_ret' = Ret("save_model", "ok", <<>>)
            /\ trip' = IF o = 1 THEN [phase |-> "saved", scaler_path |-> scaler_arg]
                       ELSE NoTrip
    /\ UNCHANGED <<monitorVars, dashVars, directVars, pm_model, pm_type, pm_scaler>>

Readable(f) == f.kind \notin {"missing", "corrupt"}

\* object 2 is a new PersonaModel and loads what object 1 has just saved
CompletesTrip(o, scaler_arg) ==
    /\ o = 2
    /\ trip = [phase |-> "saved", scaler_path |-> scaler_arg]
    /\ pm_model[2] = NoModel
    /\ pm_scaler[2] = NewScaler

\* lines 201-219: the model and its type are assigned before the scaler is
\* loaded; an exception of either joblib.load gives False
LoadModel(o, scaler_arg) ==
    /\ IF ~Readable(disk.model_path)
       THEN /\ pm_ret' = Ret("load_model", "False", <<>>)
            /\ UNCHANGED <<pm_model, pm_type, pm_scaler, trip>>
       ELSE /\ pm_model' = [pm_model EXCEPT ![o] = disk.model_path]
            /\ pm_type' = [pm_type EXCEPT ![o] = disk.model_path.of]
            /\ IF scaler_arg = "given" /\ ~Readable(disk.scaler_path)
               THEN /\ pm_ret' = Ret("load_model", "False", <<>>)
                    /\ trip' = NoTrip
                    /\ UNCHANGED pm_scaler
               ELSE /\ pm_scaler' = IF scaler_arg = "given"
                                    THEN [pm_scaler EXCEPT ![o] = disk.scaler_path]
                                    ELSE pm_scaler
                    /\ pm_ret' = Ret("load_model", "True", <<>>)
                    /\ trip' = IF CompletesTrip(o, scaler_arg)
                               THEN [phase |-> "loaded", scaler_path |-> scaler_arg]
                               ELSE NoTrip
    /\ UNCHANGED <<monitorVars, dashVars, directVars, disk>>

\* a file is deleted or damaged by something else
DiskFault ==
    /\ \E k \in {"missing", "corrupt"} :
          \/ disk' = [disk EXCEPT !.model_path = [kind |-> k, of |-> "none"]]
          \/ disk' = [disk EXCEPT !.scaler_path = [kind |-> k, of |-> "none"]]
    /\ trip' = IF trip.phase = "saved" THEN NoTrip ELSE trip
    /\ UNCHANGED <<monitorVars, dashVars, directVars, pm_model, pm_type, pm_scaler,
                   pm_ret>>

TrainCall == \E o \in Objs : Train(o)

PredictCall == \E o \in Objs : Predict(o)

SaveModelCall == \E o \in Objs, scaler_arg \in ScalerArgs : SaveModel(o, scaler_arg)

LoadModelCall == \E o \in Objs, scaler_arg \in ScalerArgs : LoadModel(o, scaler_arg)

NextPersona ==
    \/ TrainCall
    \/ PredictCall
    \/ SaveModelCall
    \/ LoadModelCall
    \/ DiskFault

\* the persona model alone
SpecPersona == InitPersona /\ [][NextPersona]_vars

\* ------------------------------------------------------------------------
\* Properties
\* ------------------------------------------------------------------------
Range(f) == {f[i] : i \in DOMAIN f}

\* the content has a line in which some keyword occurs, ignoring case
ContainsKeyword(c) ==
    \E n \in 1..Len(ContentLines(c)), k \in 1..Len(sensitive_keywords) :
        Contains(Lower(ContentLines(c)[n]), Lower(sensitive_keywords[k]))

\* the call has returned; while it ran the file had a content with a keyword
ReturnedOnSensitiveFile ==
    /\ pc = "ret"
    /\ fileStable
    /\ file \in Contents
    /\ ContainsKeyword(file)

Scannable(file_path) == IsTextFile(PathChars(file_path))

EmailLike(file_path) == IsEmailPath(PathChars(file_path))

C1_Case ==
    /\ ReturnedOnSensitiveFile
    /\ ev.access_type \in {"created", "modified"}
    /\ Scannable(ev.file_path)
    /\ usbSeen = {TRUE}

\* C1: a created or modified event on a scannable file with a sensitive
\* keyword, handled while usb_detected is true, emits exactly one alert,
\* High 'Sensitive data found in file: <path>', and returns Block /
\* 'Potential data exfiltration detected' / High.
C1_ExfiltrationBlocked ==
    C1_Case =>
        /\ AlertsOf(callLog) = <<AlertEntry("high", SensitiveMsg, ev.file_path)>>
        /\ result = BlockExfiltration

C1_Witness == C1_Case /\ result.action = "block"

C2_Case ==
    /\ ReturnedOnSensitiveFile
    /\ ev.access_type \in {"created", "modified"}
    /\ Scannable(ev.file_path)
    /\ ~EmailLike(ev.file_path)
    /\ usbSeen = {FALSE}

\* C2: the same event on a path that is not email-like, handled while
\* usb_detected is false, emits exactly one alert, Medium, and returns
\* Allow / 'No threat detected' / Low.
C2_MediumAlertAllows ==
    C2_Case =>
        /\ AlertsOf(callLog) = <<AlertEntry("medium", SensitiveMsg, ev.file_path)>>
        /\ result = Allow

C2_Witness == C2_Case /\ result.action = "allow"

\* C3: within one call the decision is Block / 'Potential data exfiltration
\* detected' exactly when the 'Sensitive data found' alert of that call was
\* logged at level High, whatever the signal thread does meanwhile.
C3_SeverityMatchesDecision ==
    pc = "ret" =>
        (result = BlockExfiltration
            <=> AlertEntry("high", SensitiveMsg, ev.file_path) \in Range(callLog))

\* C4: an event on an email-like path whose file has a sensitive keyword,
\* and that was not blocked as exfiltration, emits the High alert 'Potential
\* email data leak detected: <path>' and returns Block / 'Potential email
\* data leak detected' / High; in particular for a .eml file.
C4_EmailLeakBlocked ==
    (/\ ReturnedOnSensitiveFile
     /\ EmailLike(ev.file_path)
     /\ result # BlockExfiltration)
    =>  /\ AlertEntry("high", EmailMsg, ev.file_path) \in Range(callLog)
        /\ result = BlockEmail

Unavailable == {"missing", "unreadable"}

\* a step that ends a scan (check_file_for_sensitive_data returns)
ScanEnds == pc \in {"scan1", "open1", "scan2", "open2"} /\ pc' \notin {pc, "open1", "open2"}

\* C5: handle_file_access never raises; a scan that finds the file missing
\* or unreadable, also when it vanished after the existence check, gives
\* (False, []) and logs no alert, and the call on such a file returns
\* Allow / 'No threat detected' / Low.
C5_ScanFailureDegrades ==
    /\ [](pc = "ret" => result # Raised)
    /\ []((pc = "ret" /\ fileStable /\ file \in Unavailable)
            => (AlertsOf(callLog) = <<>> /\ result = Allow))
    /\ [][(ScanEnds /\ file \in Unavailable)
            => (/\ ~has_sensitive'
                /\ callLog' = callLog
                /\ pc' = "ret" => result' = Allow)]_vars

C5_Witness ==
    /\ pc = "ret"
    /\ ~fileStable
    /\ file \in Unavailable
    /\ Scannable(ev.file_path)
    /\ ev.access_type = "created"
    /\ result = Allow

\* the number of logs of a type that process_queue has appended
Appended(type) ==
    written[type] - Cardinality({i \in 1..Len(log_queue) : log_queue[i].type = type})

Min(a, b) == IF a < b THEN a ELSE b

\* the log holds the last Min(n, Capacity) appended records, oldest first
HoldsMostRecent(log, type) ==
    /\ Len(log) = Min(Appended(type), Capacity)
    /\ \A i \in 1..Len(log) :
          log[i].type = type /\ log[i].id = Appended(type) - Len(log) + i

\* C6: file_logs and alerts each hold at most 100 entries; once a log is
\* full every further append removes exactly the oldest entry, the others
\* staying in insertion order.
C6_BoundedFifoLogs ==
    /\ Len(file_logs) <= Capacity
    /\ Len(alerts) <= Capacity
    /\ HoldsMostRecent(file_logs, "file_access")
    /\ HoldsMostRecent(alerts, "alert")

C6_Witness ==
    /\ Appended("alert") = Capacity + 1
    /\ Len(alerts) = Capacity
    /\ alerts[1].id = 2
    /\ Appended("file_access") = Capacity + 1
    /\ file_logs[1].id = 2

\* a record of the dashboard shows the alert e of the monitor
Shows(r, e) == r.type = "alert" /\ r.a = e.level /\ <<r.b, "">> = <<e.text, e.path>>

\* the alerts the monitor has logged: by the call in progress, by the signal
Emitted == Range(AlertsOf(callLog)) \cup Range(usbLog)

\* C7: an alert emitted by handle_file_access or by the signal thread
\* reaches the alert log the dashboard reads: unless the log has evicted
\* entries, the alert is in that log or queued for it.
C7_AlertsReachDashboard ==
    \A e \in Emitted :
        written.alert <= Capacity =>
            \E r \in Range(log_queue) \cup Range(alerts) : Shows(r, e)

\* stop_monitoring has been called and has returned
StopHasReturned == stop_requested /\ m_pc = "idle"

\* C8: once stop_monitoring has returned the observer thread is gone: no
\* event is delivered, no call starts or goes on, nothing is logged or decided.
C8_NoDeliveryAfterStop ==
    [][StopHasReturned => (pc = "stopped" /\ UNCHANGED <<pc, calls, ev, callLog, result>>)]_vars

C8_Witness == StopHasReturned /\ lastOp = "stop_ok" /\ watches # {}

\* C9: once stop_monitoring has returned the signal thread sets usb_detected
\* to true no more and logs no further 'USB device detected' alert.
C9_SignalStopsWithMonitor ==
    [][StopHasReturned
         => (/\ ~(~usb_detected /\ usb_detected')
             /\ Len(usbLog') <= Len(usbLog))]_vars

\* C10: start_monitoring while running and stop_monitoring while not
\* running return without effect: is_running, usb_detected, the observer,
\* its watches and the signal threads stay as they are.
C10_RedundantCallsAreNoOps ==
    [][((is_running /\ StartMonitoring) \/ (~is_running /\ StopMonitoring))
         => (/\ lastOp' \in {"start_noop", "stop_noop"}
             /\ UNCHANGED <<is_running, usb_detected, watches, stop_requested,
                            pc, usb_pc, m_pc>>)]_vars

C10_Witness == lastOp = "start_noop" /\ is_running /\ usb_pc[1] # "none"

\* C11: start_monitoring skips a configured root that does not exist and
\* schedules every root that exists (the watches grow by exactly the roots
\* found); a start that got past observer.start() completes with is_running
\* set, also when no root was found and nothing is watched.
C11_MissingRootsSkipped ==
    /\ [][(m_pc = "idle" /\ m_pc' = "starting")
            => (/\ found' \subseteq MayExist
                /\ watches' = watches \cup found')]_vars
    /\ [][(m_pc = "starting" /\ m_pc' # "starting")
            => (/\ is_running'
                /\ lastOp' = "start_ok"
                /\ watches' = watches)]_vars

C11_Witness == m_pc = "starting" /\ found = {"data"} /\ watches = {"data"}

C11_WitnessNothingWatched == is_running /\ lastOp = "start_ok" /\ watches = {}

\* C12: a start_monitoring call in which schedule() or observer.start()
\* raises hands the exception to its caller at once, with is_running still
\* false and no signal thread started; the flag stays false until another
\* call is made.
C12_FailedStartNotRunning ==
    /\ [][(StartMonitoring /\ lastOp' = "start_raised")
            => (/\ ~is_running /\ ~is_running'
                /\ usb_pc' = usb_pc
                /\ m_pc' = "idle")]_vars
    /\ [](lastOp = "start_raised" => ~is_running)

C12_Witness == lastOp = "start_raised" /\ ~is_running /\ watches = {"data"}

FileMoved == cur_event.kind = "moved" /\ ~cur_event.is_directory

MovedFrom == [file_path |-> cur_event.src_path, access_type |-> "moved from"]

MovedTo == [file_path |-> cur_event.dest_path, access_type |-> "moved to"]

\* how far the callback of a move has got: 0 before its first call, 1 in
\* the first call, 2 between the calls, 3 in the second call, 4 after it
MovePhase == 2 * (2 - Len(calls)) - (IF ev = NoCall THEN 0 ELSE 1)

\* C13: the callback of a file move from A to B makes exactly two
\* handle_file_access calls, first 'moved from' A and, once that has
\* returned, 'moved to' B; each call's activity entry names its own action
\* and path, so the 'moved from' entry is logged before the 'moved to' one.
C13_MoveIsFromThenTo ==
    /\ [](FileMoved =>
            (\/ ev = NoCall /\ pc = "call" /\ calls = <<MovedFrom, MovedTo>>
             \/ ev = MovedFrom /\ calls = <<MovedTo>>
                   /\ callLog[1] = ActivityEntry("moved from", cur_event.src_path)
             \/ ev = NoCall /\ pc = "call" /\ calls = <<MovedTo>>
             \/ ev = MovedTo /\ calls = <<>>
                   /\ callLog[1] = ActivityEntry("moved to", cur_event.dest_path)
             \/ ev = NoCall /\ pc = "call" /\ calls = <<>>))
    /\ [][(FileMoved /\ cur_event' = cur_event)
            => MovePhase' \in {MovePhase, MovePhase + 1}]_vars
    /\ [][(FileMoved /\ cur_event' # cur_event)
            => (MovePhase = 4 /\ cur_event' = NoEvent)]_vars

C13_Witness ==
    /\ FileMoved
    /\ cur_event.src_path # cur_event.dest_path
    /\ ev = MovedTo
    /\ pc = "ret"

InCall == pc \in InCallPcs \cup {"ret"}

\* C14: from its first step to its return, whatever the access type and
\* the decision, a handle_file_access call has logged exactly one activity
\* entry, with the call's access type and path, and that entry comes
\* before every alert of the call.
C14_OneActivityEntryFirst ==
    /\ [](InCall =>
            (/\ Len(callLog) >= 1
             /\ callLog[1] = [type |-> "activity", level |-> "info",
                              text |-> ev.access_type, path |-> ev.file_path]
             /\ \A i \in 2..Len(callLog) : callLog[i].type = "alert"))
    /\ [][(InCall /\ InCall') => SubSeq(callLog', 1, Len(callLog)) = callLog]_vars

C14_Witness ==
    /\ pc = "ret"
    /\ result.action = "block"
    /\ Len(callLog) = 2
    /\ callLog[2].type = "alert"

C14_WitnessNoScan == pc = "ret" /\ ev.access_type = "deleted" /\ Len(callLog) = 1

\* the positions of line at which keyword k occurs, ignoring case
Occurrences(k, line) ==
    {i \in 1..Len(line) :
        /\ i + Len(k) - 1 <= Len(line)
        /\ Lower(SubSeq(line, i, i + Len(k) - 1)) = Lower(k)}

\* the matches returned for keyword k on line n
MatchesOf(k, n) ==
    {i \in 1..Len(scan_ret.matches) :
        /\ scan_ret.matches[i].line = n
        /\ Lower(scan_ret.matches[i].keyword) = Lower(k)}

\* C15: for every keyword list and content the scan returns, for each
\* keyword and each line, as many matches as the keyword has occurrences
\* (ignoring case) on that line, overlapping occurrences included, and no
\* other match.
C15_OneMatchPerOccurrence ==
    scan_ret.done =>
        /\ \A k \in Range(sensitive_keywords), n \in 1..Len(scan_content) :
              Cardinality(MatchesOf(k, n)) = Cardinality(Occurrences(k, scan_content[n]))
        /\ \A i \in 1..Len(scan_ret.matches) :
              /\ scan_ret.matches[i].line \in 1..Len(scan_content)
              /\ \E k \in Range(sensitive_keywords) :
                    Lower(scan_ret.matches[i].keyword) = Lower(k)

\* the extension of a path: the text from the last dot of its last
\* component, when some character other than a dot precedes that dot in the
\* component; at most one suffix of the path is its extension
FinalExtensions(path) ==
    {SubSeq(path, i, Len(path)) : i \in
        {i \in 1..Len(path) :
            /\ path[i] = "."
            /\ \A j \in (i + 1)..Len(path) : path[j] \notin {".", "/"}
            /\ \E k \in 1..(i - 1) :
                  /\ path[k] # "."
                  /\ \A l \in k..i : path[l] # "/"}}

ListedExtensions ==
    { <<"t","x","t">>, <<"p","y">>, <<"j","s">>, <<"h","t","m","l">>,
      <<"c","s","v">>, <<"j","s","o","n">>, <<"x","m","l">>, <<"m","d">>,
      <<"l","o","g">>, <<"i","n","i">>, <<"c","f","g">>, <<"c","o","n","f">> }

\* C16: _is_text_file returns true exactly when the path has a final
\* extension that, lower-cased, is one of the twelve listed ones, and false
\* for every other path; the call changes nothing of the monitor.
C16_TextFileByExtension ==
    /\ [](text_ret.done =>
            (text_ret.value <=>
                \E e \in FinalExtensions(text_path) : Tail(Lower(e)) \in ListedExtensions))
    /\ [][text_ret' # text_ret => UNCHANGED <<monitorVars, sensitive_keywords>>]_vars

C16_Witness ==
    /\ text_ret.done
    /\ text_ret.value
    /\ text_path = <<"m", ".", "M", "d">>

C16_WitnessDotFile ==
    /\ text_ret.done
    /\ ~text_ret.value
    /\ text_path = <<"m", "/", ".", "m", "d">>

\* C17: usb_detected is false after construction and changes only in a
\* step of a signal thread: to true at the connect of line 193, to false
\* at line 199.  The steps of handle_file_access and of the scan (pc), of
\* start_monitoring and stop_monitoring (m_pc, lastOp) leave it as it is.
C17_UsbFlagOwnedBySignal ==
    /\ ~usb_detected
    /\ [][usb_detected' # usb_detected
            => \E t \in 1..MaxUsbThreads :
                  \/ usb_pc[t] = "sleep30" /\ usb_pc'[t] = "log" /\ usb_detected'
                  \/ usb_pc[t] = "sleep10" /\ usb_pc'[t] = "while" /\ ~usb_detected']_vars
    /\ [][(pc' # pc \/ m_pc' # m_pc \/ lastOp' # lastOp)
            => usb_detected' = usb_detected]_vars

C17_Witness ==
    /\ usb_detected
    /\ pc = "ret"
    /\ result.action = "block"
    /\ lastOp = "start_noop"

\* the call is inside open()/read of check_file_for_sensitive_data, where
\* it stays for as long as the file system makes it wait
Scanning == pc \in {"open1", "open2"}

\* C18: while a handle_file_access call is held up reading one file, the
\* observer can still deliver another event to the handler (as long as
\* monitoring has not been stopped).
C18_StuckScanStallsOnlyItsEvent ==
    (Scanning /\ ~stop_requested) => ENABLED Dispatch

\* the alert of line 196 for a device name
UsbAlertEntry(usb_name) ==
    [type |-> "alert", level |-> "medium", text |-> "USB device detected: ", path |-> usb_name]

\* C19: a signal thread that has set usb_detected (connect) logs next, as
\* its only log entry of the connected window, one Medium alert 'USB
\* device detected: <name>'; the step back to not connected logs nothing,
\* and nothing else is ever added to the signal threads' log.
C19_OneAlertPerConnect ==
    /\ [][\A t \in 1..MaxUsbThreads :
            /\ (usb_pc[t] = "sleep30" /\ usb_pc'[t] # "sleep30")
                  => (/\ usbLog' = usbLog
                      /\ usb_pc'[t] \in {"while", "log"}
                      /\ usb_pc'[t] = "log" => usb_detected')
            /\ (usb_pc[t] = "log" /\ usb_pc'[t] # "log")
                  => (/\ usb_pc'[t] = "sleep10"
                      /\ \E usb_name \in UsbNames :
                            usbLog' = Append(usbLog, UsbAlertEntry(usb_name)))
            /\ (usb_pc[t] = "sleep10" /\ usb_pc'[t] # "sleep10")
                  => (~usb_detected' /\ usb_pc'[t] = "while" /\ usbLog' = usbLog)]_vars
    /\ [][Len(usbLog') > Len(usbLog)
            => \E t \in 1..MaxUsbThreads : usb_pc[t] = "log" /\ usb_pc'[t] = "sleep10"]_vars

C19_Witness ==
    \E t \in 1..MaxUsbThreads :
        /\ usb_pc[t] = "sleep10"
        /\ usb_detected
        /\ usbLog = <<UsbAlertEntry("USB10")>>

\* C20: during the callback of an event whose is_directory flag is set,
\* whatever its kind, no handle_file_access call is made or pending and
\* nothing is logged or scanned; the callback's only step is its return.
C20_DirectoryEventsSuppressed ==
    /\ [](cur_event.is_directory =>
            (/\ pc = "call"
             /\ calls = <<>>
             /\ ev = NoCall
             /\ callLog = <<>>
             /\ result = NoResult))
    /\ [][(cur_event.is_directory /\ pc' # pc)
            => (pc' = "check" /\ cur_event' = NoEvent /\ UNCHANGED <<calls, ev, callLog>>)]_vars

C20_Witness ==
    /\ cur_event.is_directory
    /\ cur_event.kind = "moved"
    /\ pc = "call"

C21_Case ==
    /\ ReturnedOnSensitiveFile
    /\ ev.access_type \in {"created", "modified"}
    /\ EmailLike(ev.file_path)
    /\ usbSeen = {TRUE}

\* C21: a created or modified event on an email-like path whose file has
\* a sensitive keyword, handled while usb_detected is true, returns Block /
\* 'Potential data exfiltration detected' and logs no 'Potential email data
\* leak detected' alert.
C21_ExfiltrationBeforeEmail ==
    C21_Case =>
        /\ result = BlockExfiltration
        /\ \A i \in 1..Len(callLog) : callLog[i].text # EmailMsg

\* the same for the email-like paths that the scan opens
C21_OnScannablePaths ==
    (C21_Case /\ Scannable(ev.file_path)) =>
        /\ result = BlockExfiltration
        /\ \A i \in 1..Len(callLog) : callLog[i].text # EmailMsg

C22_Case ==
    /\ pc = "ret"
    /\ ev.access_type \in {"deleted", "moved from", "moved to"}
    /\ ~EmailLike(ev.file_path)

\* C22: a deleted, 'moved from' or 'moved to' call on a path that is not
\* email-like never enters check_file_for_sensitive_data, logs no alert
\* and returns Allow / 'No threat detected' / Low, whatever usb_detected
\* is and whatever the file holds.
C22_NoScanForOtherKinds ==
    /\ [](C22_Case => (AlertsOf(callLog) = <<>> /\ result = Allow))
    /\ []((ev.access_type \in {"deleted", "moved from", "moved to"}
             /\ ~EmailLike(ev.file_path))
            => pc \notin {"scan1", "open1", "alert1", "block1", "scan2", "open2"})

C22_Witness ==
    /\ C22_Case
    /\ Scannable(ev.file_path)
    /\ file = "sensitive"
    /\ fileStable
    /\ usbSeen = {TRUE}

\* C23: a call on a path whose extension is not a listed text extension
\* never opens the file: it logs its activity entry and nothing else and
\* returns Allow / 'No threat detected' / Low, also when the file holds a
\* sensitive keyword and usb_detected is true.
C23_UnlistedExtensionNotScanned ==
    (InCall /\ ~Scannable(ev.file_path)) =>
        /\ pc \notin {"open1", "alert1", "block1", "open2"}
        /\ callLog = <<ActivityEntry(ev.access_type, ev.file_path)>>
        /\ pc = "ret" => result = Allow

C23_Witness ==
    /\ ReturnedOnSensitiveFile
    /\ ev = [file_path |-> "r.pdf", access_type |-> "created"]
    /\ usbSeen = {TRUE}
    /\ result = Allow

\* C24: whenever usb_detected is true it is false again later, also when
\* stop_monitoring is called or returns while it is true, given that the
\* signal thread keeps being scheduled.
C24_ConnectedWindowCloses == usb_detected ~> ~usb_detected

C24_Witness == usb_detected /\ ~is_running /\ lastOp = "stop_ok"

\* a call in progress goes on to its return, and stop_monitoring returns
\* only when no call is in progress or pending
C25_BegunCallsComplete ==
    /\ [][(pc \in InCallPcs) => (pc' \in InCallPcs \cup {"ret"})]_vars
    /\ [][(pc = "ret" /\ pc' # "ret") => (pc' = "call" /\ result # NoResult)]_vars
    /\ [][(m_pc = "joining" /\ m_pc' = "idle")
            => (pc = "stopped" /\ calls = <<>> /\ ev = NoCall)]_vars

\* once observer.stop() has been called the observer hands no further
\* event to the handler
C25_NoAdmissionAfterStop ==
    [][stop_requested => ~(pc = "get" /\ pc' = "call")]_vars

\* C25: stop_monitoring drains completely: a call that had begun when it
\* was called has returned before it returns, and no event is handed to
\* the handler after it has begun.
C25_CompleteDraining == C25_BegunCallsComplete /\ C25_NoAdmissionAfterStop

\* is_running is false after construction, becomes true only as a
\* start_monitoring call succeeds and false only as a stop_monitoring call
\* completes, and is false after a start_monitoring that raised
C26_FlagFollowsLifecycle ==
    /\ ~is_running
    /\ [][is_running' # is_running
            => \/ is_running' /\ lastOp' = "start_ok"
               \/ ~is_running' /\ lastOp' = "stop_ok"]_vars
    /\ []((lastOp = "start_ok" => is_running)
           /\ (lastOp \in {"start_raised", "stop_ok"} => ~is_running))

\* the observer hands an event to the handler only while is_running is true
C26_DeliveryOnlyWhileRunning ==
    [][(pc = "get" /\ pc' = "call") => is_running]_vars

\* C26: is_running is true exactly from a successful start_monitoring to
\* the completion of the next stop_monitoring, and events are delivered
\* only while it is true.
C26_RunningFlagExact == C26_FlagFollowsLifecycle /\ C26_DeliveryOnlyWhileRunning

\* the signal threads that have been started and have not ended
AliveSignalThreads == {t \in 1..MaxUsbThreads : usb_pc[t] \notin {"none", "dead"}}

\* C27: whatever start_monitoring and stop_monitoring calls are made, at
\* most one signal thread is alive, and once a stop_monitoring call has
\* completed no signal thread is alive some time later (the thread being
\* scheduled).
C27_OneSignalThread ==
    /\ [](Cardinality(AliveSignalThreads) <= 1)
    /\ (lastOp = "stop_ok") ~> (AliveSignalThreads = {})

C27_Witness ==
    /\ lastOp = "start_raised"
    /\ stop_requested
    /\ usb_pc[1] = "dead"

\* what C28 says of a call, in any state after its first step
C28_Body ==
    /\ Len(AlertsOf(callLog)) <= 2
    /\ Len(AlertsOf(callLog)) = 2 =>
          /\ AlertsOf(callLog) = << AlertEntry("medium", SensitiveMsg, ev.file_path),
                                    AlertEntry("high", EmailMsg, ev.file_path) >>
          /\ ev.access_type \in {"created", "modified"}
          /\ EmailLike(ev.file_path)
          /\ Scannable(ev.file_path)
          /\ result = BlockEmail
    /\ (pc = "ret" /\ result.action = "block") => result.alert_level = "high"
    /\ (pc = "ret" /\ result.action = "allow") => result = Allow

\* C28: a call logs at most two alerts, and two only as Medium 'Sensitive
\* data found' followed by High 'Potential email data leak detected', for a
\* created or modified event on an email-like scannable path that was not
\* blocked as exfiltration; a Block has level High, an Allow has level Low
\* and reason 'No threat detected'.
C28_AlertsAndLevels == InCall => C28_Body

\* the same for the calls during which usb_detected did not change
C28_WithSteadySignal == (InCall /\ Cardinality(usbSeen) = 1) => C28_Body

\* predict and save_model raise RuntimeError exactly when no model is set
C29_NoModelRaises ==
    [][\A o \in Objs :
        /\ Predict(o) => (pm_ret'.outcome = "RuntimeError" <=> pm_model[o] = NoModel)
        /\ (\E a \in ScalerArgs : SaveModel(o, a))
              => (pm_ret'.outcome = "RuntimeError" <=> pm_model[o] = NoModel)]_vars

\* a load_model call that returns False has changed nothing of its object
C29_FailedLoadKeepsState ==
    [][(LoadModelCall /\ pm_ret'.outcome = "False")
        => UNCHANGED <<pm_model, pm_type, pm_scaler>>]_vars

\* after object 1 saved and the new object 2 loaded with success, predict
\* on object 2 gives what predict on object 1 gives
C29_RoundTrip ==
    [][(trip.phase = "loaded" /\ Predict(2) /\ PredictResult(1).outcome = "ok")
        => pm_ret' = PredictResult(1)]_vars

\* C29: predict and save_model raise RuntimeError unless a model is set; a
\* load_model call that fails returns False and leaves model, model_type
\* and scaler as they were; a model saved and loaded with success into a
\* new PersonaModel predicts the persona the original predicts.
C29_PersonaModelContract ==
    /\ C29_NoModelRaises
    /\ C29_FailedLoadKeepsState
    /\ C29_RoundTrip

\* the round trip of C29 holds when both calls were given the scaler path
C29_RoundTripWithScaler ==
    [][(trip = [phase |-> "loaded", scaler_path |-> "given"] /\ Predict(2)
          /\ PredictResult(1).outcome = "ok")
        => pm_ret' = PredictResult(1)]_vars

\* a load_model call that fails on the model file has changed nothing
C29_FailedModelLoadKeepsState ==
    [][(LoadModelCall /\ ~Readable(disk.model_path))
        => (pm_ret'.outcome = "False" /\ UNCHANGED <<pm_model, pm_type, pm_scaler>>)]_vars

====
